---- MODULE Spec2Model ----
(***************************************************************************)
(* Model of scripts/receiver.py: a Flask application that relays Docker    *)
(* registry push webhooks to a Gotify server, filtered by a watch list.    *)
(*                                                                         *)
(* Text is modelled as a sequence of tokens.  A token is one character     *)
(* ("a", ",", " ") or a fixed piece of text that the program never looks   *)
(* inside ("Unknown", "**Image:** ", "http://localhost:80").                *)
(* A Python or JSON value is a record [t, v]: t is its type tag and v is   *)
(* its text when t = "str".                                                *)
(***************************************************************************)
EXTENDS Integers, Sequences, FiniteSets, TLC

\* ------------------------------------------------------------------ bounds
\* Longest WATCHED_IMAGES text enumerated by the start-up specification.
MaxLen == 3

\* ------------------------------------------------------------------ values
Str(s) == [t |-> "str", v |-> s]
\* Python None (os.getenv of an unset variable, line 10).
PyNone == [t |-> "none", v |-> <<>>]
\* A key that the JSON object does not have.
Absent == [t |-> "absent", v |-> <<>>]
\* An environment variable that is not set.
Unset == [t |-> "unset", v |-> <<>>]

\* str.strip() removes these from both ends (line 12).
Whitespace == {" "}

\* os.getenv(name, default): the value when the variable is set, else default.
Getenv(var, default) == IF var.t = "unset" THEN default ELSE Str(var.v)

\* Python truthiness of None / str, as used by "if not X" (lines 15, 18).
Truthy(x) == x.t = "str" /\ x.v # <<>>

\* ---------------------------------------------------- line 12: watch list
RECURSIVE Split(_)
\* str.split(','): the pieces between commas; "" splits into [""].
Split(s) ==
  IF \A i \in 1..Len(s) : s[i] # ","
  THEN <<s>>
  ELSE LET i == CHOOSE k \in 1..Len(s) :
                  s[k] = "," /\ \A j \in 1..(k - 1) : s[j] # ","
       IN  <<SubSeq(s, 1, i - 1)>> \o Split(SubSeq(s, i + 1, Len(s)))

RECURSIVE LStrip(_)
LStrip(s) == IF s # <<>> /\ Head(s) \in Whitespace THEN LStrip(Tail(s)) ELSE s

RECURSIVE RStrip(_)
RStrip(s) ==
  IF s # <<>> /\ s[Len(s)] \in Whitespace
  THEN RStrip(SubSeq(s, 1, Len(s) - 1))
  ELSE s

\* str.strip()
Strip(s) == RStrip(LStrip(s))

\* A watch list that keeps the empty entries (the "if img.strip()" dropped).
ParseWatchedKeepEmpty(s) ==
  LET parts == Split(s) IN [i \in 1..Len(parts) |-> Strip(parts[i])]

\* [img.strip() for img in WATCHED_IMAGES_STR.split(',') if img.strip()]
ParseWatched(s) ==
  LET parts == Split(s)
      stripped == [i \in 1..Len(parts) |-> Strip(parts[i])]
      NonEmpty(x) == x # <<>>
  IN  SelectSeq(stripped, NonEmpty)

\* "x in WATCHED_IMAGES" for a list
InList(x, list) == \E i \in 1..Len(list) : list[i] = x

\* --------------------------------------------------------- request bodies
\* data[key] written for data.get(key, default): nothing stands in for a
\* missing key.
DictGetNoDefault(field, default) == field
\* dict.get(key, default): the value under the key, the default when the
\* key is missing (lines 30, 34-37).
DictGet(field, default) == IF field.t = "absent" THEN default ELSE field

\* The {} default of data.get('repository', {}) and data.get('target', {}).
EmptyDict == [t |-> "obj", a |-> Absent, b |-> Absent]
\* JSON null where an object is expected.
JNull == [t |-> "null", a |-> Absent, b |-> Absent]
\* A key of the body that is missing (object-valued keys).
NoObj == [t |-> "absent", a |-> Absent, b |-> Absent]
\* A JSON object {a, b}: (name, repo_name) for repository, (tag, date) for
\* target.
Obj(x, y) == [t |-> "obj", a |-> x, b |-> y]

Unknown == Str(<<"Unknown">>)
Push == Str(<<"push">>)

\* Outcomes of a run of straight-line code inside the try block.
Return(text, status) == [k |-> "return", status |-> status, text |-> text,
                         exc |-> "", post |-> <<>>, loc |-> <<>>]
\* The (status, text) pair that Flask sends back for a returned tuple.
NoJson == [status |-> <<>>, gotify_url |-> <<>>, watched_images |-> <<>>]
Response(out) == [status |-> out.status, text |-> out.text, json |-> NoJson]
NoResponse == [status |-> 0, text |-> <<>>, json |-> NoJson]
Raise(exc) == [k |-> "raise", status |-> 0, text |-> <<>>,
               exc |-> exc, post |-> <<>>, loc |-> <<>>]
Call(post, loc) == [k |-> "call", status |-> 0, text |-> <<>>,
                    exc |-> "", post |-> <<post>>, loc |-> <<loc>>]

\* line 27: request.json raises (werkzeug BadRequest, a subclass of
\* Exception) when the body does not parse as JSON.
JsonRaises(body) == body.json = "invalid"

\* x.get(...) exists only on a dict: AttributeError on list, None, ...
HasGet(x) == x.t = "obj"

\* line 30 with "==" written for "!=".
IsNotPushInverted(data) == DictGet(data.action, PyNone) = Push
\* line 30: data.get('action') != 'push'
IsNotPush(data) == DictGet(data.action, PyNone) # Push

\* line 40 with "or" written for "and".
NotWatchedOr(repo_name, repo_full_name, watched) ==
  ~InList(repo_name.v, watched) \/ ~InList(repo_full_name.v, watched)
\* line 40: repo_name not in WATCHED_IMAGES and repo_full_name not in
\* WATCHED_IMAGES
NotWatched(repo_name, repo_full_name, watched) ==
  ~InList(repo_name.v, watched) /\ ~InList(repo_full_name.v, watched)

\* line 46 with tag and date exchanged.
MessageSwapped(repo_full_name, tag, pushed_at) ==
  <<"**Image:** ">> \o repo_full_name.v \o <<"\n**Tag:** ">> \o pushed_at.v
    \o <<"\n**Pushed:** ">> \o tag.v
\* line 46: f"**Image:** {repo_full_name}\n**Tag:** {tag}\n**Pushed:** {pushed_at}"
Message(repo_full_name, tag, pushed_at) ==
  <<"**Image:** ">> \o repo_full_name.v \o <<"\n**Tag:** ">> \o tag.v
    \o <<"\n**Pushed:** ">> \o pushed_at.v

\* lines 45-59: the outbound requests.post call.  The title is a fixed text
\* (its leading emoji is written "(whale)" here).
GotifyPost(url, token, repo_full_name, tag, pushed_at) ==
  [method |-> "POST",
   url |-> url.v \o <<"/message">>,
   params |-> [token |-> token],
   json |-> [title |-> <<"(whale) New Docker Tag Released">>,
             message |-> Message(repo_full_name, tag, pushed_at),
             priority |-> 5]]

\* lines 27-59: the try block up to the point where requests.post is called.
\* The result is the early return, the exception raised, or the outbound
\* call together with the locals that are live across it.
TryBlock(body, url, token, watched) ==
  IF JsonRaises(body) THEN Raise("BadRequest")
  ELSE IF body.json # "object" THEN Raise("AttributeError")
  ELSE IF IsNotPush(body) THEN Return(<<"Not a push event">>, 200)
  ELSE
    LET repository == DictGet(body.repository, EmptyDict)
        target == DictGet(body.target, EmptyDict)
    IN  IF ~HasGet(repository) \/ ~HasGet(target) THEN Raise("AttributeError")
        ELSE
          LET repo_name == DictGet(repository.a, Unknown)
              repo_full_name == DictGet(repository.b, Unknown)
              tag == DictGet(target.a, Unknown)
              pushed_at == DictGet(target.b, Unknown)
          IN  IF NotWatched(repo_name, repo_full_name, watched)
              THEN Return(<<"Image ">> \o repo_full_name.v
                            \o <<" not in watch list">>, 200)
              ELSE Call(GotifyPost(url, token, repo_full_name, tag, pushed_at),
                        [repo_name |-> repo_name,
                         repo_full_name |-> repo_full_name,
                         tag |-> tag, pushed_at |-> pushed_at])

\* line 61: response.status_code == 200
StatusOk(status_code) == status_code = 200

\* lines 61-66 with the status of the notification service ignored.
AfterPostIgnoresStatus(status_code) == Return(<<"Notification sent">>, 200)
\* lines 61, 63, 64, 66: the response once requests.post has returned.
AfterPost(status_code) ==
  IF StatusOk(status_code)
  THEN Return(<<"Notification sent">>, 200)
  ELSE Return(<<"Failed to send notification">>, 500)

\* An except clause that catches ValueError only: Flask itself answers the
\* others (400 for an HTTPException such as BadRequest, else 500).
ExceptValueErrorOnly(exc) ==
  IF exc = "BadRequest" THEN Return(<<"Bad Request">>, 400)
  ELSE Return(<<"Internal Server Error">>, 500)
\* lines 68-70: except Exception -- every exception the try block can raise
\* (BadRequest, AttributeError, requests.RequestException) is an Exception.
Except(exc) == Return(<<"Error processing webhook">>, 500)

\* lines 74-78: the dict and status that health_check returns.
HealthResponse(url, watched) ==
  [status |-> 200, text |-> <<>>,
   json |-> [status |-> <<"running">>, gotify_url |-> url.v,
             watched_images |-> watched]]

\* lines 62, 65, 69: what the handler prints, by the way it ends (line 41
\* prints the text that line 42 returns).
PrintSent(loc) ==
  <<"Notification sent for ">> \o loc.repo_full_name.v \o <<":">> \o loc.tag.v
PrintFailed(status_code) ==
  <<"Failed to send notification: ", ToString(status_code), " - ", "<text>">>
PrintError(exc) == <<"Error processing webhook: ", exc>>

\* ------------------------------------------------------------- inputs
\* Characters of a WATCHED_IMAGES text in the start-up specification.
Alphabet == {"a", "b", ",", " "}
Texts(n) == UNION {[1..k -> Alphabet] : k \in 0..n}

Var(s) == [t |-> "set", v |-> s]
Env(url, token, watched) ==
  [GOTIFY_URL |-> url, GOTIFY_TOKEN |-> token, WATCHED_IMAGES |-> watched]

\* Every environment with a WATCHED_IMAGES text of at most MaxLen characters.
WideEnvs ==
  {Env(u, t, w) : u \in {Unset, Var(<<"http://gotify">>)},
                  t \in {Unset, Var(<<>>), Var(<<"secret">>)},
                  w \in {Unset} \cup {Var(s) : s \in Texts(MaxLen)}}

\* The environments of the request specification: three that start and one
\* for each way of failing to start.
Envs ==
  { Env(Unset, Var(<<"secret">>), Var(<<"a">>)),
    Env(Var(<<"http://gotify">>), Var(<<"secret">>),
        Var(<<" ", "a", "/", "b", " ", ",", ",">>)),
    Env(Var(<<"http://gotify">>), Var(<<" ">>),
        Var(<<"Unknown", ",", " ", "b">>)),
    Env(Unset, Unset, Var(<<"a">>)),
    Env(Unset, Var(<<>>), Var(<<"a">>)),
    Env(Unset, Var(<<"secret">>), Unset),
    Env(Unset, Var(<<"secret">>), Var(<<>>)),
    Env(Unset, Var(<<"secret">>), Var(<<",", " ", ",">>)) }

\* A short name and a full name, as in "web" and "myapp/web".
Names == {<<"b">>, <<"a", "/", "b">>}
Leaf(S) == {Absent} \cup {Str(x) : x \in S}
Repositories ==
  {NoObj, JNull} \cup {Obj(x, y) : x \in Leaf(Names), y \in Leaf(Names)}
Targets ==
  {NoObj, JNull} \cup {Obj(x, y) : x \in Leaf({<<"v", "2">>}),
                                  y \in Leaf({<<"2024-01-01">>})}
Body(json, action, repository, target) ==
  [json |-> json, action |-> action, repository |-> repository,
   target |-> target]
NoBody == Body("none", Absent, NoObj, NoObj)
\* Request bodies: text that is not JSON, a JSON array, and JSON objects.
\* A push event has every combination of present and missing keys; an event
\* that is no push (no action, or another action) varies its repository only.
Bodies ==
  {Body("invalid", Absent, NoObj, NoObj), Body("array", Absent, NoObj, NoObj)}
  \cup {Body("object", Push, y, z) : y \in Repositories, z \in Targets}
  \cup {Body("object", x, y, Obj(Str(<<"v", "2">>), Str(<<"2024-01-01">>))) :
          x \in {Absent, Str(<<"pull">>)}, y \in Repositories}

\* Status codes the notification service answers with.
GotifyStatuses == {200, 201, 401, 500}

Requests == {"r1", "r2"}

\* ------------------------------------------------------------- state
VARIABLES
  env,             \* the process environment (os.environ)
  phase,           \* "boot", "serving" or "failed" (ValueError at import)
  GOTIFY_URL,      \* module global, line 9
  GOTIFY_TOKEN,    \* module global, line 10
  WATCHED_IMAGES,  \* module global, line 12
  req,             \* per request: route, position, body, locals, response
  posts,           \* per request: the requests.post calls it has made
  stdout           \* what was printed, by the request (or "main") printing

config == <<GOTIFY_URL, GOTIFY_TOKEN, WATCHED_IMAGES>>
vars == <<env, phase, GOTIFY_URL, GOTIFY_TOKEN, WATCHED_IMAGES, req, posts,
          stdout>>

NoDown == [k |-> "none", status |-> 0]
Idle == [route |-> "", pc |-> "idle", body |-> NoBody, loc |-> <<>>, down |-> NoDown,
         resp |-> NoResponse]

InitWith(E) ==
  /\ env \in E
  /\ phase = "boot"
  /\ GOTIFY_URL = PyNone
  /\ GOTIFY_TOKEN = PyNone
  /\ WATCHED_IMAGES = <<>>
  /\ req = [r \in Requests |-> Idle]
  /\ posts = [r \in Requests |-> <<>>]
  /\ stdout = [r \in Requests \cup {"main"} |-> <<>>]

Init == InitWith(Envs)

RECURSIVE Repr(_)
\* The text of a list of str, as print shows it (line 22).
Repr(list) ==
  IF list = <<>> THEN <<>>
  ELSE <<"'">> \o Head(list) \o <<"'">>
       \o (IF Tail(list) = <<>> THEN <<>> ELSE <<", ">>) \o Repr(Tail(list))

\* lines 9-22 and 80-81: the module body.
Startup ==
  /\ phase = "boot"
  /\ LET url == Getenv(env.GOTIFY_URL, Str(<<"http://localhost:80">>))
         token == Getenv(env.GOTIFY_TOKEN, PyNone)
         str == Getenv(env.WATCHED_IMAGES, Str(<<>>))
         watched == ParseWatched(str.v)
         ok == Truthy(token) /\ watched # <<>>
     IN  /\ GOTIFY_URL' = url
         /\ GOTIFY_TOKEN' = token
         /\ WATCHED_IMAGES' = watched
         /\ phase' = IF ok THEN "serving" ELSE "failed"
         /\ stdout' = IF ok
                      THEN [stdout EXCEPT !["main"] =
                              <<<<"Gotify URL: ">> \o url.v,
                                <<"Watching images: [">> \o Repr(watched)
                                  \o <<"]">>>>]
                      ELSE stdout
  /\ UNCHANGED <<env, req, posts>>

\* The state of request r after the try block ran on body up to `out`:
\* a return or an exception ends the request, a call leaves it waiting for
\* the notification service.
Handle(r, body, out) ==
  /\ req' = [req EXCEPT ![r] =
       [route |-> "/docker-webhook",
        pc |-> IF out.k = "call" THEN "waiting" ELSE "done",
        body |-> body,
        loc |-> out.loc,
        down |-> NoDown,
        resp |-> CASE out.k = "call" -> NoResponse
                   [] out.k = "return" -> Response(out)
                   [] out.k = "raise" -> Response(Except(out.exc))]]
  /\ posts' = [posts EXCEPT ![r] = @ \o out.post]
  /\ stdout' = [stdout EXCEPT ![r] =
       CASE out.k = "call" -> @
         [] out.k = "raise" -> Append(@, PrintError(out.exc))
         [] out.k = "return" ->
              IF out.text = <<"Not a push event">> THEN @
              ELSE Append(@, out.text)]

\* A handler that remembers what was notified: a push whose notification an
\* earlier request already posted is answered without a second POST.
ReceiveDedup(r, body) ==
  /\ phase = "serving"
  /\ req[r].pc = "idle"
  /\ LET out == TryBlock(body, GOTIFY_URL, GOTIFY_TOKEN, WATCHED_IMAGES)
         seen == \E q \in Requests : posts[q] # <<>> /\ posts[q] = out.post
     IN  Handle(r, body, IF seen THEN Return(<<"Notification sent">>, 200)
                         ELSE out)
  /\ UNCHANGED <<env, phase, config>>

\* A handler that adds the image it turned away to the watch list.
ReceiveLearns(r, body) ==
  /\ phase = "serving"
  /\ req[r].pc = "idle"
  /\ LET out == TryBlock(body, GOTIFY_URL, GOTIFY_TOKEN, WATCHED_IMAGES)
     IN  /\ Handle(r, body, out)
         /\ WATCHED_IMAGES' =
              IF out.k = "return" /\ out.text # <<"Not a push event">>
              THEN Append(WATCHED_IMAGES, <<"learned">>)
              ELSE WATCHED_IMAGES
  /\ UNCHANGED <<env, phase, GOTIFY_URL, GOTIFY_TOKEN>>

\* POST /docker-webhook arrives with `body` and runs to its response or to
\* the requests.post call (lines 24-59, 68-70).
Receive(r, body) ==
  /\ phase = "serving"
  /\ req[r].pc = "idle"
  /\ Handle(r, body, TryBlock(body, GOTIFY_URL, GOTIFY_TOKEN, WATCHED_IMAGES))
  /\ UNCHANGED <<env, phase, config>>

\* requests.post returns with status_code, and a status that is not 200 is
\* answered by posting once more.
GotifyRespondsRetry(r, status_code) ==
  /\ req[r].pc = "waiting"
  /\ IF StatusOk(status_code) \/ Len(posts[r]) > 1
     THEN /\ req' = [req EXCEPT ![r].pc = "done",
                        ![r].down = [k |-> "status", status |-> status_code],
                        ![r].resp = Response(AfterPost(status_code))]
          /\ posts' = posts
     ELSE /\ req' = req
          /\ posts' = [posts EXCEPT ![r] = Append(@, @[1])]
  /\ UNCHANGED <<env, phase, config, stdout>>

\* requests.post returns with status_code (lines 55-66).
GotifyResponds(r, status_code) ==
  /\ req[r].pc = "waiting"
  /\ req' = [req EXCEPT ![r].pc = "done",
                        ![r].down = [k |-> "status", status |-> status_code],
                        ![r].resp = Response(AfterPost(status_code))]
  /\ stdout' = [stdout EXCEPT ![r] =
       Append(@, IF StatusOk(status_code) THEN PrintSent(req[r].loc[1])
                 ELSE PrintFailed(status_code))]
  /\ UNCHANGED <<env, phase, config, posts>>

\* requests.post raises (connection refused, ...) and line 68 catches it.
GotifyRaises(r) ==
  /\ req[r].pc = "waiting"
  /\ req' = [req EXCEPT ![r].pc = "done",
                        ![r].down = [k |-> "raised", status |-> 0],
                        ![r].resp = Response(Except("ConnectionError"))]
  /\ stdout' = [stdout EXCEPT ![r] = Append(@, PrintError("ConnectionError"))]
  /\ UNCHANGED <<env, phase, config, posts>>

\* GET /health (lines 72-78).
Health(r) ==
  /\ phase = "serving"
  /\ req[r].pc = "idle"
  /\ req' = [req EXCEPT ![r].route = "/health", ![r].pc = "done",
                        ![r].resp = HealthResponse(GOTIFY_URL, WATCHED_IMAGES)]
  /\ UNCHANGED <<env, phase, config, posts, stdout>>

Next ==
  \/ Startup
  \/ \E r \in Requests, body \in Bodies : Receive(r, body)
  \/ \E r \in Requests, status_code \in GotifyStatuses :
       GotifyResponds(r, status_code)
  \/ \E r \in Requests : GotifyRaises(r)
  \/ \E r \in Requests : Health(r)

Spec == Init /\ [][Next]_vars

\* Start-up over every environment, then a single request.
InitStartup == InitWith(WideEnvs)
NextStartup ==
  \/ Startup
  \/ \E body \in Bodies : Receive("r1", body)
  \/ \E status_code \in GotifyStatuses : GotifyResponds("r1", status_code)
  \/ GotifyRaises("r1")
  \/ Health("r1")
SpecStartup == InitStartup /\ [][NextStartup]_vars

\* ============================================================ properties
\* Vocabulary of the properties, written from the statements they check and
\* not from the operators of the handler above.

Webhook(r) == req[r].route = "/docker-webhook"
Done(r) == req[r].pc = "done"

\* A body that decodes to an event: a JSON object whose repository and
\* target, where present, are objects.
IsEvent(b) ==
  /\ b.json = "object"
  /\ b.repository.t \in {"absent", "obj"}
  /\ b.target.t \in {"absent", "obj"}
IsPushEvent(b) == IsEvent(b) /\ b.action.t = "str" /\ b.action.v = <<"push">>

\* The text of a field, "Unknown" standing in for a missing one.
OrUnknown(x) == IF x.t = "str" THEN x.v ELSE <<"Unknown">>
ShortName(b) == OrUnknown(b.repository.a)
FullName(b) == OrUnknown(b.repository.b)
TagOf(b) == OrUnknown(b.target.a)
DateOf(b) == OrUnknown(b.target.b)

Members(list) == {list[i] : i \in 1..Len(list)}
InWatchList(b) ==
  ShortName(b) \in Members(WATCHED_IMAGES)
    \/ FullName(b) \in Members(WATCHED_IMAGES)
FilteredOut(b) == ~IsPushEvent(b) \/ ~InWatchList(b)

Contains(text, part) ==
  \E i \in 1..(Len(text) - Len(part) + 1) :
    SubSeq(text, i, i + Len(part) - 1) = part

Answered(r, status, text) ==
  Done(r) /\ req[r].resp.status = status /\ req[r].resp.text = text

\* C1: every webhook request makes at most one outbound POST, at any moment
\* and whatever the notification service answers; a request whose body
\* decodes to an event is either filtered out (no push, or image not
\* watched) and makes none, or makes exactly one; a body that does not
\* decode makes none.
C1_OneAttempt ==
  \A r \in Requests :
    /\ Len(posts[r]) <= 1
    /\ Webhook(r) =>
         Len(posts[r]) =
           IF IsEvent(req[r].body) /\ ~FilteredOut(req[r].body) THEN 1 ELSE 0

\* A watched push whose notification was refused (status 500) and whose
\* request is over, next to a request that was filtered out.
C1_Witness ==
  \E r, q \in Requests :
    /\ Done(r) /\ req[r].down = [k |-> "status", status |-> 500]
    /\ Len(posts[r]) = 1
    /\ Done(q) /\ Webhook(q) /\ IsEvent(req[q].body)
    /\ FilteredOut(req[q].body) /\ posts[q] = <<>>

\* C2: a webhook request whose body is a JSON object with an action other
\* than "push", or with no action, is answered 200 "Not a push event" and
\* makes no outbound POST.
C2_NotPush ==
  \A r \in Requests :
    (Webhook(r) /\ req[r].body.json = "object"
       /\ req[r].body.action # Str(<<"push">>))
      => Answered(r, 200, <<"Not a push event">>) /\ posts[r] = <<>>

\* Two events that are no push, one without action and one with another
\* action, both naming a watched image.
C2_Witness ==
  \E r, q \in Requests :
    /\ Webhook(r) /\ req[r].body.json = "object"
    /\ req[r].body.action.t = "absent" /\ InWatchList(req[r].body)
    /\ Webhook(q) /\ req[q].body.json = "object"
    /\ req[q].body.action.t = "str" /\ req[q].body.action.v # <<"push">>
    /\ InWatchList(req[q].body)
    /\ Done(r) /\ Done(q)

\* C3: a push event with neither its short name nor its full name in the
\* watch list is answered 200 with a body that contains its full name and
\* makes no outbound POST; a push event with either name in the list is
\* passed on (its POST is made).
C3_WatchFilter ==
  \A r \in Requests :
    (Webhook(r) /\ IsPushEvent(req[r].body)) =>
      IF InWatchList(req[r].body)
      THEN Len(posts[r]) = 1
      ELSE /\ Done(r) /\ req[r].resp.status = 200
           /\ Contains(req[r].resp.text, FullName(req[r].body))
           /\ posts[r] = <<>>

\* One push turned away with both names present and unwatched, and one
\* passed on with only its short name watched.
C3_Witness ==
  \E r, q \in Requests :
    /\ Webhook(r) /\ IsPushEvent(req[r].body) /\ Done(r)
    /\ req[r].body.repository.a.t = "str"
    /\ req[r].body.repository.b.t = "str"
    /\ ~InWatchList(req[r].body)
    /\ Webhook(q) /\ IsPushEvent(req[q].body)
    /\ ShortName(req[q].body) \in Members(WATCHED_IMAGES)
    /\ FullName(req[q].body) \notin Members(WATCHED_IMAGES)
    /\ Len(posts[q]) = 1

\* The URL of the notification service that start-up settles on.
BaseUrl ==
  IF env.GOTIFY_URL.t = "set" THEN env.GOTIFY_URL.v
  ELSE <<"http://localhost:80">>

\* The one POST that request r made is the notification of its event:
\* to {GOTIFY_URL}/message, the token as query parameter, a JSON body with
\* priority 5 and the three-line message.
OneNotification(r) ==
  /\ Len(posts[r]) = 1
  /\ posts[r][1].method = "POST"
  /\ posts[r][1].url = BaseUrl \o <<"/message">>
  /\ posts[r][1].params = [token |-> Str(env.GOTIFY_TOKEN.v)]
  /\ posts[r][1].json.priority = 5
  /\ posts[r][1].json.message =
       <<"**Image:** ">> \o FullName(req[r].body)
         \o <<"\n**Tag:** ">> \o TagOf(req[r].body)
         \o <<"\n**Pushed:** ">> \o DateOf(req[r].body)

GotifyAnswered(r) == Done(r) /\ req[r].down.k = "status"

\* C4 as stated: a watched push whose notification is answered with any
\* success status (2xx) has made exactly that one POST and is answered
\* 200 "Notification sent".
C4_AnySuccessStatus ==
  \A r \in Requests :
    (GotifyAnswered(r) /\ req[r].down.status \in 200..299) =>
      OneNotification(r) /\ Answered(r, 200, <<"Notification sent">>)

\* C4, amended: a watched push whose notification is answered with status
\* 200 has made exactly that one POST and is answered 200 "Notification sent".
C4_Status200 ==
  \A r \in Requests :
    (GotifyAnswered(r) /\ req[r].down.status = 200) =>
      /\ IsPushEvent(req[r].body) /\ InWatchList(req[r].body)
      /\ OneNotification(r)
      /\ Answered(r, 200, <<"Notification sent">>)

\* A watched push with tag and date present, answered 200 by the service.
C4_Witness ==
  \E r \in Requests :
    /\ GotifyAnswered(r) /\ req[r].down.status = 200
    /\ req[r].body.target.a.t = "str" /\ req[r].body.target.b.t = "str"
    /\ req[r].body.repository.b.t = "str"

\* C5: a watched push whose notification is answered with a status that is
\* no success status is answered 500 "Failed to send notification", and its
\* POST stays the only one.
C5_FailureStatus ==
  \A r \in Requests :
    (GotifyAnswered(r) /\ req[r].down.status \notin 200..299) =>
      /\ Answered(r, 500, <<"Failed to send notification">>)
      /\ OneNotification(r)

\* Two watched pushes refused with a client error and with a server error.
C5_Witness ==
  \E r, q \in Requests :
    /\ GotifyAnswered(r) /\ req[r].down.status = 401
    /\ GotifyAnswered(q) /\ req[q].down.status = 500

\* The response a webhook request is due, from its own body, the watch
\* list and what the notification service did with its own POST.
Due(b, down) ==
  LET error == [status |-> 500, text |-> <<"Error processing webhook">>,
                json |-> NoJson]
  IN  IF b.json # "object" THEN error
      ELSE IF b.action # Str(<<"push">>)
      THEN [status |-> 200, text |-> <<"Not a push event">>, json |-> NoJson]
      ELSE IF ~IsEvent(b) THEN error
      ELSE IF ~InWatchList(b)
      THEN [status |-> 200,
            text |-> <<"Image ">> \o FullName(b) \o <<" not in watch list">>,
            json |-> NoJson]
      ELSE CASE down.k = "none" -> NoResponse
             [] down.k = "raised" -> error
             [] down.k = "status" /\ down.status = 200 ->
                  [status |-> 200, text |-> <<"Notification sent">>,
                   json |-> NoJson]
             [] OTHER ->
                  [status |-> 500, text |-> <<"Failed to send notification">>,
                   json |-> NoJson]

\* Handling request r raised: its body is no JSON, is JSON but no object, is
\* a push with null for repository or target, or its POST raised.
Failed(r) ==
  /\ Webhook(r)
  /\ \/ req[r].body.json # "object"
     \/ req[r].body.action = Str(<<"push">>) /\ ~IsEvent(req[r].body)
     \/ req[r].down.k = "raised"

\* C6: a request whose handling raised is answered 500 "Error processing
\* webhook"; the process goes on serving, and every other request gets the
\* response it is due, as it would without the failed one.
C6_FailureIsolated ==
  \A r \in Requests :
    Failed(r) =>
      /\ Answered(r, 500, <<"Error processing webhook">>)
      /\ phase = "serving"
      /\ \A q \in Requests \ {r} :
           /\ Webhook(q) => req[q].resp = Due(req[q].body, req[q].down)
           /\ ~Webhook(q) /\ Done(q) => req[q].resp.status = 200

\* A request with a body that is no JSON, over, next to a watched push that
\* was notified.
C6_Witness ==
  \E r, q \in Requests :
    /\ Failed(r) /\ req[r].body.json = "invalid"
    /\ Answered(q, 200, <<"Notification sent">>)

\* Some key of the push event b is missing.
SomeKeyMissing(b) ==
  \/ b.repository.t = "absent" \/ b.target.t = "absent"
  \/ b.repository.a.t = "absent" \/ b.repository.b.t = "absent"
  \/ b.target.a.t = "absent" \/ b.target.b.t = "absent"

\* C7: a push event with missing keys reaches the watch-list filter with
\* "Unknown" in place of each missing value: it is answered by the filter
\* with that full name, or its POST carries those values; it is answered
\* 500 "Error processing webhook" only if its POST raised.
C7_MissingFields ==
  \A r \in Requests :
    (Webhook(r) /\ IsPushEvent(req[r].body) /\ SomeKeyMissing(req[r].body)) =>
      /\ Answered(r, 500, <<"Error processing webhook">>)
           => req[r].down.k = "raised"
      /\ IF InWatchList(req[r].body)
         THEN /\ OneNotification(r)
              /\ req[r].loc =
                   <<[repo_name |-> Str(ShortName(req[r].body)),
                      repo_full_name |-> Str(FullName(req[r].body)),
                      tag |-> Str(TagOf(req[r].body)),
                      pushed_at |-> Str(DateOf(req[r].body))]>>
         ELSE Answered(r, 200, <<"Image ">> \o FullName(req[r].body)
                                 \o <<" not in watch list">>)

\* In one state: a push event without repository and without target,
\* notified because "Unknown" is watched, and a push event that has a
\* repository and a target but no repo_name and no tag.
C7_Witness ==
  \E r, q \in Requests :
    /\ Webhook(r) /\ req[r].body.action = Str(<<"push">>)
    /\ req[r].body.repository.t = "absent" /\ req[r].body.target.t = "absent"
    /\ Answered(r, 200, <<"Notification sent">>)
    /\ posts[r][1].json.message =
         <<"**Image:** ", "Unknown", "\n**Tag:** ", "Unknown",
           "\n**Pushed:** ", "Unknown">>
    /\ Webhook(q) /\ req[q].body.action = Str(<<"push">>)
    /\ req[q].body.repository.t = "obj" /\ req[q].body.target.t = "obj"
    /\ req[q].body.repository.a.t = "str"
    /\ req[q].body.repository.b.t = "absent"
    /\ req[q].body.target.a.t = "absent"
    /\ req[q].body.target.b.t = "str"
    /\ Done(q) /\ req[q].resp.status = 200

\* The text of WATCHED_IMAGES in the environment ("" when it is not set).
WatchText ==
  IF env.WATCHED_IMAGES.t = "set" THEN env.WATCHED_IMAGES.v ELSE <<>>

\* The watch list that start-up settles on, stated on the positions of the
\* text: a piece lies between two neighbouring cuts (a comma or an end of
\* the text); its entry runs from its first to its last character that is
\* no whitespace; a piece without such a character has no entry.
Cuts == {0, Len(WatchText) + 1} \cup {i \in 1..Len(WatchText) : WatchText[i] = ","}
Inked(p) ==
  LET q == CHOOSE c \in Cuts : c > p /\ \A d \in Cuts : ~(p < d /\ d < c)
  IN  {i \in (p + 1)..(q - 1) : WatchText[i] # " "}
Starts == {p \in Cuts : p <= Len(WatchText) /\ Inked(p) # {}}
Least(S) == CHOOSE x \in S : \A y \in S : x <= y
Most(S) == CHOOSE x \in S : \A y \in S : x >= y
StartupWatchList ==
  [k \in 1..Cardinality(Starts) |->
     LET p == CHOOSE x \in Starts : Cardinality({y \in Starts : y < x}) = k - 1
     IN  SubSeq(WatchText, Least(Inked(p)), Most(Inked(p)))]

\* C8: once the process serves, the configuration is what start-up made of
\* the environment, whatever requests were handled since, and GET /health
\* answers 200 with status "running", that URL and that watch list.
C8_HealthShowsStartupConfig ==
  phase = "serving" =>
    /\ GOTIFY_URL = Str(BaseUrl)
    /\ GOTIFY_TOKEN = Str(env.GOTIFY_TOKEN.v)
    /\ WATCHED_IMAGES = StartupWatchList
    /\ \A r \in Requests :
         req[r].route = "/health" =>
           /\ Done(r) /\ req[r].resp.status = 200
           /\ req[r].resp.json =
                [status |-> <<"running">>, gotify_url |-> BaseUrl,
                 watched_images |-> StartupWatchList]

\* GET /health answered after a webhook request that was turned away.
C8_Witness ==
  \E r, q \in Requests :
    /\ Webhook(r) /\ Done(r) /\ IsPushEvent(req[r].body)
    /\ ~InWatchList(req[r].body)
    /\ req[q].route = "/health" /\ Done(q)
    /\ Len(req[q].resp.json.watched_images) = 2

TokenGiven == env.GOTIFY_TOKEN.t = "set" /\ env.GOTIFY_TOKEN.v # <<>>
ImageGiven == \E i \in 1..Len(WatchText) : WatchText[i] \notin {",", " "}

\* C9: the process serves only if GOTIFY_TOKEN is set and not empty and the
\* watch list made of WATCHED_IMAGES (split on commas, entries trimmed,
\* empty entries dropped) is not empty; with the token unset or empty, or
\* WATCHED_IMAGES unset, empty or made of commas and whitespace only,
\* start-up fails and no request is handled.
C9_StartupValidation ==
  /\ phase = "serving" =>
       /\ TokenGiven /\ ImageGiven
       /\ WATCHED_IMAGES = StartupWatchList /\ WATCHED_IMAGES # <<>>
  /\ (phase # "boot" /\ ~(TokenGiven /\ ImageGiven)) => phase = "failed"
  /\ phase # "serving" =>
       \A r \in Requests : req[r] = Idle /\ posts[r] = <<>>

\* Start-up failed with a token given and a WATCHED_IMAGES text that has
\* characters, all of them commas and whitespace.
C9_Witness ==
  /\ phase = "failed"
  /\ TokenGiven
  /\ Len(WatchText) >= 2 /\ ~ImageGiven
  /\ \E i, j \in 1..Len(WatchText) : WatchText[i] = "," /\ WatchText[j] = " "

\* C10: what a webhook request is answered, and whether it makes its POST,
\* is settled by its own body, the start-up configuration and the answer to
\* its own POST, whatever other requests there are or were; the same
\* watched push delivered to two requests is posted by each of them.
C10_Independent ==
  \A r \in Requests :
    Webhook(r) =>
      /\ req[r].resp = Due(req[r].body, req[r].down)
      /\ (posts[r] # <<>>) <=>
           (IsPushEvent(req[r].body) /\ InWatchList(req[r].body))
      /\ \A q \in Requests :
           (Webhook(q) /\ req[q].body = req[r].body) =>
             /\ posts[q] = posts[r]
             /\ req[q].down = req[r].down => req[q].resp = req[r].resp

\* The same watched push delivered twice, each delivery posted and answered
\* "Notification sent".
C10_Witness ==
  \E r, q \in Requests :
    /\ r # q /\ req[r].body = req[q].body
    /\ Answered(r, 200, <<"Notification sent">>)
    /\ Answered(q, 200, <<"Notification sent">>)
    /\ Len(posts[r]) = 1 /\ Len(posts[q]) = 1

====
